---- MODULE Spec2Model ----
(***************************************************************************)
(* Model of the maze crate (src/src/lib.rs): Matrix<T>, the Neighbours     *)
(* iterator, Maze::generate (randomized Prim) and Maze::solve (BFS with    *)
(* path restoration).                                                      *)
(*                                                                         *)
(* usize is modelled with UsizeBits bits.  Rust defines integer overflow   *)
(* per build: with overflow checks (the default of the dev and test        *)
(* profiles) `u - 1` with u = 0 panics, without them (the default of the   *)
(* release profile) it wraps modulo 2^w.  The crate's build profile is not *)
(* part of the sources, so the model keeps both builds: overflow_checks is *)
(* chosen in Init and never changes.                                       *)
(***************************************************************************)
EXTENDS Integers, Sequences, FiniteSets, TLC

\* Bounds of the model.
MaxN == 3
MaxM == 3
MaxCells == 9
UsizeBits == 6

VARIABLES
    overflow_checks, \* build: TRUE = arithmetic overflow panics, FALSE = wraps
    maze,            \* Matrix<bool>: [data, n, m], TRUE = wall
    generated,       \* maze was returned by generate
    pc,              \* "generate" | "carve" | "ready" | "search" | "restore" | "done":
                     \* where the running call stands
    fault,           \* "none", or the panic that ended the call where pc stands:
                     \* "overflow" (arithmetic) | "index" (index out of range)
    gen_start,       \* generate's `start`
    cells,           \* generate's frontier Vec
    start,           \* solve's `start`
    queue,           \* solve's VecDeque
    costs,           \* solve's Matrix<usize>
    exit,            \* solve's Option<Point>
    current,         \* solve's `current` of the restore loop
    path,            \* solve's `path` (exit -> start until reversed)
    result,          \* solve's return value, meaningful when pc = "done"
    discarded,       \* history: the cells generate removed and did not carve
    readded,         \* history: the cells generate pushed after discarding them
    previous         \* history: start and return value of the caller's
                     \* previous call of solve on this maze, if any

vars == <<overflow_checks, maze, generated, pc, fault, gen_start, cells,
          start, queue, costs, exit, current, path, result, discarded, readded, previous>>

gen_vars == <<gen_start, cells, discarded, readded>>
solve_vars == <<start, queue, costs, exit, current, path, result>>

----------------------------------------------------------------------------
\* Option<T>
None == [some |-> FALSE]
Some(v) == [some |-> TRUE, val |-> v]

\* usize arithmetic, w = UsizeBits
Modulus == 2 ^ UsizeBits

\* i64::wrapping_abs on the deltas the iterator uses
wrapping_abs(i) == IF i < 0 THEN 0 - i ELSE i

\* fn safe_add(u: usize, i: i64) -> usize: the value it returns when it
\* returns, and whether the subtraction/addition overflows usize
safe_add(u, i) ==
    IF i < 0
    THEN [value |-> (u - wrapping_abs(i) + Modulus) % Modulus,
          overflow |-> u < wrapping_abs(i)]
    ELSE [value |-> (u + i) % Modulus,
          overflow |-> u + i >= Modulus]

\* Matrix<T>
Matrix_new(n, m, default) ==
    [data |-> [k \in 0 .. (n * m - 1) |-> default], n |-> n, m |-> m]

\* the bounds check comparing with <= instead of <
is_valid_inclusive(self, point) == point[1] <= self.n /\ point[2] <= self.m

\* Bounds check.
is_valid(self, point) == point[1] < self.n /\ point[2] < self.m

\* lines 41 and 50: the check of Index / IndexMut that panics with
\* "index out of range"
OutOfRange(self, index) == index[1] >= self.n \/ index[2] >= self.m

\* Index<Point>: defined when the point passes the check of lines 41/50
Index(self, index) == self.data[index[1] * self.m + index[2]]

IndexMut(self, index, value) ==
    [self EXCEPT !.data[index[1] * self.m + index[2]] = value]

is_exit(self, point) ==
    \/ point[1] = 0
    \/ point[1] = self.n - 1
    \/ point[2] = 0
    \/ point[2] = self.m - 1

\* Neighbours::next: the match on self.neighbour
Delta(neighbour) ==
    CASE neighbour = 0 -> <<-1, 0>>
      [] neighbour = 1 -> <<0, 1>>
      [] neighbour = 2 -> <<1, 0>>
      [] neighbour = 3 -> <<0, -1>>

\* Neighbours::next for self.neighbour in 0..3: the point yielded, or a panic
\* when an overflow happens in a build with overflow checks
Neighbours_next(point, neighbour) ==
    LET d == Delta(neighbour)
        x == safe_add(point[1], d[1])
        y == safe_add(point[2], d[2])
    IN  [point |-> <<x.value, y.value>>,
         panic |-> overflow_checks /\ (x.overflow \/ y.overflow)]

\* `for next in Neighbours::of(point) { .. }` asks the iterator for neighbour
\* k only while the loop runs: not after the 4th (`_ => return None`), not
\* after a break (acc.stop), not after a panic
LoopEnded(acc, k) == k > 3 \/ acc.panic \/ acc.stop

\* the panic that ended a loop
FaultOf(acc) == IF acc.oob THEN "index" ELSE "overflow"

\* a loop ended by the panic of Index / IndexMut
IndexPanic(acc) == [acc EXCEPT !.panic = TRUE, !.oob = TRUE]

\* Vec::swap_remove(index), index 1-based here
swap_remove(v, index) ==
    LET last == Len(v)
        front == SubSeq(v, 1, last - 1)
    IN  IF index = last THEN front ELSE [front EXCEPT ![index] = v[last]]

----------------------------------------------------------------------------
\* Maze::generate

\* lines 112-114 and 123-125: push the in-bounds walled neighbours
RECURSIVE PushWalledFrom(_, _, _, _)
PushWalledFrom(mz, point, k, acc) ==
    IF LoopEnded(acc, k) THEN acc
    ELSE LET nb == Neighbours_next(point, k)
             next == nb.point
         IN  PushWalledFrom(mz, point, k + 1,
                IF nb.panic THEN [acc EXCEPT !.panic = TRUE]
                ELSE IF ~is_valid(mz, next) THEN acc
                ELSE IF OutOfRange(mz, next) THEN IndexPanic(acc)
                ELSE IF Index(mz, next)
                THEN [acc EXCEPT !.cells = Append(@, next)]
                ELSE acc)

\* the same loop pushing the open neighbours instead of the walled ones
PushOpen(mz, point, cs) ==
    LET open == [data |-> [k \in DOMAIN mz.data |-> ~mz.data[k]], n |-> mz.n, m |-> mz.m]
    IN  PushWalledFrom(open, point, 0, [cells |-> cs, panic |-> FALSE, oob |-> FALSE, stop |-> FALSE])

\* the same loop pushing every in-bounds neighbour, walled or not
PushAny(mz, point, cs) ==
    LET walled == [data |-> [k \in DOMAIN mz.data |-> TRUE], n |-> mz.n, m |-> mz.m]
    IN  PushWalledFrom(walled, point, 0,
            [cells |-> cs, panic |-> FALSE, oob |-> FALSE, stop |-> FALSE])

PushWalled(mz, point, cs) ==
    PushWalledFrom(mz, point, 0, [cells |-> cs, panic |-> FALSE, oob |-> FALSE, stop |-> FALSE])

\* lines 117-120: count the in-bounds open neighbours
RECURSIVE ExploredFrom(_, _, _, _)
ExploredFrom(mz, point, k, acc) ==
    IF LoopEnded(acc, k) THEN acc
    ELSE LET nb == Neighbours_next(point, k)
             next == nb.point
         IN  ExploredFrom(mz, point, k + 1,
                IF nb.panic THEN [acc EXCEPT !.panic = TRUE]
                ELSE IF ~is_valid(mz, next) THEN acc
                ELSE IF OutOfRange(mz, next) THEN IndexPanic(acc)
                ELSE IF ~Index(mz, next)
                THEN [acc EXCEPT !.explored = @ + 1]
                ELSE acc)

\* the same loop counting the walled neighbours instead of the open ones
ExploredWalled(mz, point) ==
    LET open == [data |-> [k \in DOMAIN mz.data |-> ~mz.data[k]], n |-> mz.n, m |-> mz.m]
    IN  ExploredFrom(open, point, 0,
            [explored |-> 0, panic |-> FALSE, oob |-> FALSE, stop |-> FALSE])

Explored(mz, point) ==
    ExploredFrom(mz, point, 0, [explored |-> 0, panic |-> FALSE, oob |-> FALSE, stop |-> FALSE])

\* line 121 carving whatever the neighbours are short of 3 open ones
ShouldCarveBelowThree(explored) == explored < 3

\* line 121 carving only a cell with no open neighbour
ShouldCarveBelowOne(explored) == explored < 1

\* line 121
ShouldCarve(explored) == explored < 2

\* lines 99-114: x = gen_range(0..n), y = gen_range(0..m), b = gen::<bool>()
GenerateBegin(x, y, b) ==
    /\ pc = "generate"
    /\ fault = "none"
    /\ LET at == IF b THEN <<x, 0>> ELSE <<0, y>>
           mz == IndexMut(maze, at, FALSE)
           seeded == PushWalled(mz, at, cells)
       IN  IF OutOfRange(maze, at)
           THEN /\ fault' = "index"
                /\ UNCHANGED <<maze, gen_start, cells, pc>>
           ELSE /\ maze' = mz
                /\ gen_start' = at
                /\ cells' = seeded.cells
                /\ pc' = IF seeded.panic THEN pc ELSE "carve"
                /\ fault' = IF seeded.panic THEN FaultOf(seeded) ELSE fault
    /\ UNCHANGED <<overflow_checks, previous, generated, discarded, readded, solve_vars>>

\* lines 116-127, one iteration: index = gen_range(0..len) + 1
GenerateStep(index) ==
    /\ pc = "carve"
    /\ fault = "none"
    /\ index \in 1 .. Len(cells)
    /\ LET cur == cells[index]
           rest == swap_remove(cells, index)
           ex == Explored(maze, cur)
           mz == IndexMut(maze, cur, FALSE)
           pushed == PushWalled(mz, cur, rest)
       IN  IF ex.panic
           THEN /\ cells' = rest
                /\ fault' = FaultOf(ex)
                /\ UNCHANGED <<maze, pc>>
           ELSE IF ShouldCarve(ex.explored) /\ OutOfRange(maze, cur)
           THEN /\ cells' = rest
                /\ fault' = "index"
                /\ UNCHANGED <<maze, pc>>
           ELSE IF ShouldCarve(ex.explored)
           THEN /\ maze' = mz
                /\ cells' = pushed.cells
                /\ pc' = pc
                /\ fault' = IF pushed.panic THEN FaultOf(pushed) ELSE fault
           ELSE /\ cells' = rest
                /\ UNCHANGED <<maze, pc, fault>>
    /\ discarded' = IF ~Explored(maze, cells[index]).panic
                        /\ ~ShouldCarve(Explored(maze, cells[index]).explored)
                     THEN discarded \cup {cells[index]}
                     ELSE discarded
    /\ readded' = readded \cup
            {c \in discarded :
                \E k \in Len(cells) .. Len(cells') : cells'[k] = c}
    /\ UNCHANGED <<overflow_checks, previous, generated, gen_start, solve_vars>>

\* lines 116 and 129: remove_random returns None, the maze is returned
GenerateReturn ==
    /\ pc = "carve"
    /\ fault = "none"
    /\ Len(cells) = 0
    /\ pc' = "ready"
    /\ generated' = TRUE
    /\ UNCHANGED <<overflow_checks, previous, maze, fault, gen_vars, solve_vars>>

----------------------------------------------------------------------------
\* Maze::solve

\* line 171
Downhill(cs, next, cur) == Index(cs, next) # 0 /\ Index(cs, next) < Index(cs, cur)

\* line 156 without `|| costs[next] != 0`: only walls are skipped
SkipWalls(self, cs, next) == Index(self, next)

\* line 156 for an in-bounds next
Skip(self, cs, next) == Index(self, next) \/ Index(cs, next) # 0

\* lines 155-160: the neighbour loop of one dequeued cell
RECURSIVE ExpandFrom(_, _, _, _)
ExpandFrom(self, cur, k, acc) ==
    IF LoopEnded(acc, k) THEN acc
    ELSE LET nb == Neighbours_next(cur, k)
             next == nb.point
         IN  ExpandFrom(self, cur, k + 1,
                IF nb.panic THEN [acc EXCEPT !.panic = TRUE]
                ELSE IF ~is_valid(self, next) THEN acc
                ELSE IF OutOfRange(self, next) THEN IndexPanic(acc)
                ELSE IF Skip(self, acc.costs, next) THEN acc
                ELSE [acc EXCEPT
                        !.exit = IF is_exit(self, next) THEN Some(next) ELSE @,
                        !.costs = IndexMut(@, next, Index(acc.costs, cur) + 1),
                        !.queue = Append(@, next)])

Expand(self, cs, q, ex, cur) ==
    ExpandFrom(self, cur, 0,
        [costs |-> cs, queue |-> q, exit |-> ex, panic |-> FALSE, oob |-> FALSE, stop |-> FALSE])

\* lines 168-176: the neighbour loop of one restore iteration
RECURSIVE StepBackFrom(_, _, _, _, _)
StepBackFrom(self, cs, cur, k, acc) ==
    IF LoopEnded(acc, k) THEN acc
    ELSE LET nb == Neighbours_next(cur, k)
             next == nb.point
         IN  StepBackFrom(self, cs, cur, k + 1,
                IF nb.panic THEN [acc EXCEPT !.panic = TRUE]
                ELSE IF ~is_valid(self, next) THEN acc
                ELSE IF OutOfRange(cs, next) THEN IndexPanic(acc)
                ELSE IF Downhill(cs, next, cur)
                THEN [acc EXCEPT !.current = next, !.path = Append(@, next),
                                 !.stop = TRUE]
                ELSE acc)

StepBack(self, cs, cur, p) ==
    StepBackFrom(self, cs, cur, 0,
        [current |-> cur, path |-> p, panic |-> FALSE, oob |-> FALSE, stop |-> FALSE])

\* lines 180-185 with the `.rev()` left out
ReverseOmitted(p) == p

\* lines 180-183
Reverse(p) == [k \in 1 .. Len(p) |-> p[Len(p) + 1 - k]]

\* lines 143-151 with the wall check of line 144 left out
SolveBeginUnchecked(s) ==
    /\ pc = "ready"
    /\ fault = "none"
    /\ start' = s
    /\ IF OutOfRange(maze, s)
       THEN /\ fault' = "index"
            /\ UNCHANGED <<pc, queue, costs, result>>
       ELSE /\ costs' = IndexMut(Matrix_new(maze.n, maze.m, 0), s, 1)
            /\ queue' = <<s>>
            /\ pc' = "search"
            /\ UNCHANGED <<result, fault>>
    /\ UNCHANGED <<overflow_checks, previous, maze, generated, gen_vars, exit, current, path>>

\* lines 143-151, start = s
SolveBegin(s) ==
    /\ pc = "ready"
    /\ fault = "none"
    /\ start' = s
    /\ IF OutOfRange(maze, s)
       THEN /\ fault' = "index"
            /\ UNCHANGED <<pc, queue, costs, result>>
       ELSE IF Index(maze, s)
       THEN /\ pc' = "done"
            /\ result' = None
            /\ UNCHANGED <<queue, costs, fault>>
       ELSE /\ costs' = IndexMut(Matrix_new(maze.n, maze.m, 0), s, 1)
            /\ queue' = <<s>>
            /\ pc' = "search"
            /\ UNCHANGED <<result, fault>>
    /\ UNCHANGED <<overflow_checks, previous, maze, generated, gen_vars, exit, current, path>>

\* lines 153-161 with the break of line 154 left out
SearchStepNoBreak ==
    /\ pc = "search"
    /\ fault = "none"
    /\ Len(queue) > 0
    /\ LET ex == Expand(maze, costs, Tail(queue), exit, Head(queue))
       IN  /\ costs' = ex.costs
           /\ queue' = ex.queue
           /\ exit' = ex.exit
           /\ pc' = pc
           /\ fault' = IF ex.panic THEN FaultOf(ex) ELSE fault
    /\ UNCHANGED <<overflow_checks, previous, maze, generated, gen_vars, start, current, path, result>>

\* lines 153-161, one iteration that expands the dequeued cell
SearchStep ==
    /\ pc = "search"
    /\ fault = "none"
    /\ Len(queue) > 0
    /\ ~exit.some
    /\ LET ex == Expand(maze, costs, Tail(queue), exit, Head(queue))
       IN  /\ costs' = ex.costs
           /\ queue' = ex.queue
           /\ exit' = ex.exit
           /\ pc' = pc
           /\ fault' = IF ex.panic THEN FaultOf(ex) ELSE fault
    /\ UNCHANGED <<overflow_checks, previous, maze, generated, gen_vars, start, current, path, result>>

\* lines 153-154 and 164-165 restoring from any exit the search has reached
\* instead of the one recorded in `exit`
SearchEndAnyExit ==
    /\ pc = "search"
    /\ fault = "none"
    /\ Len(queue) = 0 \/ exit.some
    /\ queue' = IF Len(queue) = 0 THEN queue ELSE Tail(queue)
    /\ IF exit.some
       THEN /\ \E point \in {q \in (0 .. (maze.n - 1)) \X (0 .. (maze.m - 1)) :
                                q # start /\ is_exit(maze, q) /\ Index(costs, q) # 0} :
                    /\ current' = point
                    /\ path' = <<point>>
            /\ pc' = "restore"
            /\ UNCHANGED result
       ELSE /\ result' = None
            /\ pc' = "done"
            /\ UNCHANGED <<current, path>>
    /\ UNCHANGED <<overflow_checks, previous, maze, generated, fault, gen_vars, start, costs, exit>>

\* lines 153-154 and 164-165: the loop ends (break or empty queue)
SearchEnd ==
    /\ pc = "search"
    /\ fault = "none"
    /\ Len(queue) = 0 \/ exit.some
    /\ queue' = IF Len(queue) = 0 THEN queue ELSE Tail(queue)
    /\ IF exit.some
       THEN /\ current' = exit.val
            /\ path' = <<exit.val>>
            /\ pc' = "restore"
            /\ UNCHANGED result
       ELSE /\ result' = None
            /\ pc' = "done"
            /\ UNCHANGED <<current, path>>
    /\ UNCHANGED <<overflow_checks, previous, maze, generated, fault, gen_vars, start, costs, exit>>

\* lines 167-177, one iteration of `while current != start`
RestoreStep ==
    /\ pc = "restore"
    /\ fault = "none"
    /\ current # start
    /\ LET sb == StepBack(maze, costs, current, path)
       IN  /\ current' = sb.current
           /\ path' = sb.path
           /\ pc' = pc
           /\ fault' = IF sb.panic THEN FaultOf(sb) ELSE fault
    /\ UNCHANGED <<overflow_checks, previous, maze, generated, gen_vars, start, queue, costs, exit, result>>

\* lines 167 and 179-185
SolveReturn ==
    /\ pc = "restore"
    /\ fault = "none"
    /\ current = start
    /\ result' = Some(Reverse(path))
    /\ pc' = "done"
    /\ UNCHANGED <<overflow_checks, previous, maze, generated, fault, gen_vars,
                   start, queue, costs, exit, current, path>>

\* the caller calls solve once more on the same maze (tests.rs 54-59 calls
\* it in a loop): the locals of the call that returned are gone
SolveAgain ==
    /\ pc = "done"
    /\ fault = "none"
    /\ ~previous.some
    /\ previous' = Some([start |-> start, result |-> result])
    /\ pc' = "ready"
    /\ start' = <<0, 0>>
    /\ queue' = <<>>
    /\ costs' = Matrix_new(0, 0, 0)
    /\ exit' = None
    /\ current' = <<0, 0>>
    /\ path' = <<>>
    /\ result' = None
    /\ UNCHANGED <<overflow_checks, maze, generated, fault, gen_vars>>

\* the starts the caller passes to solve: any point up to one row or column
\* out of range, and the same start again in a repeated call
Starts ==
    IF previous.some THEN {previous.val.start}
    ELSE (0 .. maze.n) \X (0 .. maze.m)

----------------------------------------------------------------------------
\* The two mazes of src/src/tests.rs (1 = wall)
SimpleMaze ==
    <<1, 0, 1, 1, 1,
      1, 0, 0, 1, 1,
      1, 1, 0, 0, 1,
      1, 0, 0, 1, 1,
      1, 1, 1, 1, 1>>

BlockedMaze ==
    <<1, 1, 1, 1, 1, 1,
      1, 0, 0, 1, 0, 1,
      1, 0, 1, 1, 0, 1,
      1, 0, 0, 1, 0, 1,
      1, 1, 1, 1, 0, 1,
      1, 0, 0, 1, 0, 1,
      1, 1, 0, 0, 0, 1,
      1, 1, 1, 1, 1, 1>>

\* Maze { data: maze.iter().map(|&i| i != 0).collect(), n, m }
MazeOf(v, n, m) == [data |-> [k \in 0 .. (n * m - 1) |-> v[k + 1] # 0], n |-> n, m |-> m]

TestMazes == {MazeOf(SimpleMaze, 5, 5), MazeOf(BlockedMaze, 8, 6)}

Dims == {d \in (1 .. MaxN) \X (1 .. MaxM) : d[1] * d[2] <= MaxCells}

\* every boolean grid within the bounds
Grids ==
    UNION {{[data |-> f, n |-> d[1], m |-> d[2]] :
                f \in [0 .. (d[1] * d[2] - 1) -> BOOLEAN]} : d \in Dims}

InitLocals ==
    /\ overflow_checks \in BOOLEAN
    /\ generated = FALSE
    /\ fault = "none"
    /\ gen_start = <<0, 0>>
    /\ cells = <<>>
    /\ discarded = {}
    /\ readded = {}
    /\ previous = None
    /\ start = <<0, 0>>
    /\ queue = <<>>
    /\ costs = Matrix_new(0, 0, 0)
    /\ exit = None
    /\ current = <<0, 0>>
    /\ path = <<>>
    /\ result = None

\* generate(n, m) is about to run on its fully walled maze (lines 95-96)
InitGenerate ==
    /\ pc = "generate"
    /\ \E d \in Dims : maze = Matrix_new(d[1], d[2], TRUE)
    /\ InitLocals

\* solve is about to run on a maze built directly (tests.rs, any grid)
InitSolve ==
    /\ pc = "ready"
    /\ maze \in Grids \cup TestMazes
    /\ InitLocals

Init == InitGenerate \/ InitSolve

GenerateNext ==
    \/ \E x \in 0 .. (maze.n - 1), y \in 0 .. (maze.m - 1), b \in BOOLEAN :
            GenerateBegin(x, y, b)
    \/ \E index \in 1 .. Len(cells) : GenerateStep(index)
    \/ GenerateReturn

Next ==
    \/ \E x \in 0 .. (maze.n - 1), y \in 0 .. (maze.m - 1), b \in BOOLEAN :
            GenerateBegin(x, y, b)
    \/ \E index \in 1 .. Len(cells) : GenerateStep(index)
    \/ GenerateReturn
    \/ \E s \in Starts : SolveBegin(s)
    \/ SearchStep
    \/ SearchEnd
    \/ RestoreStep
    \/ SolveReturn
    \/ SolveAgain

Spec == Init /\ [][Next]_vars

\* Runs that start with a call of generate.  generate is sequential code
\* with no suspension point: while it can take a step it takes one.
GenerateSpec == InitGenerate /\ [][Next]_vars /\ WF_vars(GenerateNext)

----------------------------------------------------------------------------
\* Vocabulary of the properties, independent of the code's own bookkeeping

Points(mz) == (0 .. (mz.n - 1)) \X (0 .. (mz.m - 1))

OpenCells(mz) == {p \in Points(mz) : ~Index(mz, p)}

Abs(i) == IF i < 0 THEN 0 - i ELSE i

\* von Neumann adjacency on integer coordinates
Adjacent(p, q) == Abs(p[1] - q[1]) + Abs(p[2] - q[2]) = 1

OnBoundary(mz, p) == p[1] \in {0, mz.n - 1} \/ p[2] \in {0, mz.m - 1}

OpenExits(mz) == {p \in OpenCells(mz) : OnBoundary(mz, p)}

\* the open cells connected to the cells of `seen` through open cells
RECURSIVE Grow(_, _)
Grow(mz, seen) ==
    LET more == {q \in OpenCells(mz) \ seen : \E p \in seen : Adjacent(p, q)}
    IN  IF more = {} THEN seen ELSE Grow(mz, seen \cup more)

Component(mz, p) == Grow(mz, {p})

\* number of cells of a shortest open-cell path from the cells of `layer`
\* (reached with `len` cells) to an open boundary cell; 0 when there is none
RECURSIVE NearestExit(_, _, _, _)
NearestExit(mz, seen, layer, len) ==
    IF \E p \in layer : OnBoundary(mz, p) THEN len
    ELSE LET more == {q \in OpenCells(mz) \ seen : \E p \in layer : Adjacent(p, q)}
         IN  IF more = {} THEN 0 ELSE NearestExit(mz, seen \cup more, more, len + 1)

OpenEdges(mz) ==
    {e \in SUBSET OpenCells(mz) :
        Cardinality(e) = 2 /\ \A p \in e, q \in e : p = q \/ Adjacent(p, q)}

\* number of simple open-cell paths from `cur` to `target` avoiding `visited`
RECURSIVE SimplePaths(_, _, _, _)
RECURSIVE SumSimplePaths(_, _, _, _)
SimplePaths(mz, cur, target, visited) ==
    IF cur = target THEN 1
    ELSE SumSimplePaths(mz, {q \in OpenCells(mz) \ visited : Adjacent(cur, q)},
                        target, visited)
SumSimplePaths(mz, todo, target, visited) ==
    IF todo = {} THEN 0
    ELSE LET q == CHOOSE c \in todo : TRUE
         IN  SimplePaths(mz, q, target, visited \cup {q})
               + SumSimplePaths(mz, todo \ {q}, target, visited)

\* solve has returned or faulted on an in-bounds open start
SolvedFromOpen ==
    /\ pc = "done" \/ (pc \in {"search", "restore"} /\ fault # "none")
    /\ is_valid(maze, start)
    /\ ~Index(maze, start)

IsPath(mz, p) ==
    /\ Len(p) >= 1
    /\ \A k \in 1 .. Len(p) : is_valid(mz, p[k]) /\ ~Index(mz, p[k])
    /\ \A k \in 1 .. (Len(p) - 1) : Adjacent(p[k], p[k + 1])

----------------------------------------------------------------------------
\* C1: for every maze produced by generate(n, m), n >= 1, m >= 1, and every
\* open cell c of it, solve(c) returns Some(path).
C1_GeneratedSolvable ==
    (generated /\ SolvedFromOpen) => (pc = "done" /\ result.some)

\* C2: whenever solve returns Some(path): every cell of the path is in bounds
\* and open, consecutive cells are von Neumann adjacent, the first cell is
\* start, the last cell is the discovered exit on the outer boundary.
C2_PathValid ==
    (pc = "done" /\ result.some) =>
        /\ IsPath(maze, result.val)
        /\ result.val[1] = start
        /\ result.val[Len(result.val)] = exit.val
        /\ OnBoundary(maze, result.val[Len(result.val)])

\* C2 witness: test_simple_maze, solve((3, 1)) has returned its 6-cell path
C2_Witness ==
    /\ pc = "done"
    /\ maze = MazeOf(SimpleMaze, 5, 5)
    /\ start = <<3, 1>>
    /\ result.some
    /\ result.val = << <<3, 1>>, <<3, 2>>, <<2, 2>>, <<1, 2>>, <<1, 1>>, <<0, 1>> >>

\* C3: whenever solve returns Some(path), the number of cells of path equals
\* the cost recorded for the exit, and no shorter open-cell path leads from
\* start to any open boundary cell, a start on the boundary included.
C3_Minimal ==
    (pc = "done" /\ result.some) =>
        /\ Len(result.val) = Index(costs, exit.val)
        /\ Len(result.val) = NearestExit(maze, {start}, {start}, 1)

\* C4: at every step of generate the open cells form one 4-connected region
\* that contains the first carved cell and has no cycle: between any two open
\* cells there is exactly one simple open-cell path.
C4_CarvedIsTree ==
    (pc = "carve" \/ generated) =>
        /\ ~Index(maze, gen_start)
        /\ Component(maze, gen_start) = OpenCells(maze)
        /\ Cardinality(OpenEdges(maze)) = Cardinality(OpenCells(maze)) - 1
        /\ \A a \in OpenCells(maze), b \in OpenCells(maze) :
                SimplePaths(maze, a, b, {a}) = 1

\* C4 witness: mid-generation, after carves and at least one discard
C4_Witness ==
    /\ pc = "carve"
    /\ Len(cells) > 0
    /\ Cardinality(OpenCells(maze)) >= 4
    /\ \E p \in Points(maze) :
            /\ Index(maze, p)
            /\ Cardinality({q \in OpenCells(maze) : Adjacent(p, q)}) >= 2
            /\ \A k \in 1 .. Len(cells) : cells[k] # p

\* C5: for every n >= 1, m >= 1 and every sequence of random choices generate
\* terminates: the frontier becomes empty and the maze is returned.
C5_GenerateTerminates == (pc = "generate") ~> (pc = "ready" /\ generated)

\* C5, what the model does establish: in a build without overflow checks
\* every run of generate returns
GenerateTerminatesWhenWrapping ==
    (pc = "generate" /\ ~overflow_checks) ~> (pc = "ready" /\ generated)

\* C6: in every maze produced by generate(n, m), n >= 2, m >= 2, solve from
\* every open cell, the first carved boundary cell included, returns Some.
C6_NoOpenCellIsolated ==
    (generated /\ maze.n >= 2 /\ maze.m >= 2 /\ SolvedFromOpen) =>
        (pc = "done" /\ result.some)

\* C6 witness: solve from the first carved cell of a generated maze returned
\* a path
C6_Witness ==
    /\ generated
    /\ maze.n >= 2 /\ maze.m >= 2
    /\ pc = "done"
    /\ start = gen_start
    /\ result.some
    /\ Len(result.val) >= 2

\* C7 as claimed: when generation finishes exactly one open cell lies on the
\* outer boundary.
C7_UniquelyExitable ==
    generated => Cardinality(OpenExits(maze)) = 1

\* C7 amended: when generation finishes the first carved cell is an open
\* boundary cell; it is the only one on the 1x1 grid alone, every larger maze
\* has at least two open boundary cells.
C7_ExitCarvedNotUnique ==
    generated =>
        /\ gen_start \in OpenExits(maze)
        /\ (Cardinality(OpenExits(maze)) = 1) <=> (maze.n * maze.m = 1)

\* C7 witness: a finished maze with an interior cell and several open
\* boundary cells
C7_Witness ==
    /\ generated
    /\ maze.n >= 3 /\ maze.m >= 3
    /\ Cardinality(OpenExits(maze)) >= 3

\* C8: for any grid and any open in-bounds start from which the search finds
\* no exit, solve returns None as a normal result: it does not fault.
C8_NoExitReturnsNone ==
    (SolvedFromOpen /\ Component(maze, start) \cap OpenExits(maze) \subseteq {start}) =>
        (pc = "done" /\ ~result.some)

\* C9: if start is an in-bounds wall cell, solve returns None without
\* exploring: no cost is written, nothing is enqueued, the maze is unchanged.
C9_WallStartReturnsNone ==
    [][(pc = "ready" /\ fault = "none" /\ is_valid(maze, start') /\ Index(maze, start'))
        => /\ pc' = "done"
           /\ ~result'.some
           /\ costs' = Matrix_new(0, 0, 0)
           /\ queue' = <<>>
           /\ exit' = None
           /\ maze' = maze]_vars

\* C9 witness: solve((1, 3)) on the blocked test maze, a wall, has returned
C9_Witness ==
    /\ pc = "done"
    /\ maze = MazeOf(BlockedMaze, 8, 6)
    /\ start = <<1, 3>>
    /\ Index(maze, start)
    /\ ~result.some

\* C10: for every point (r, c) the enumerator yields exactly the 4 points
\* north, east, south, west in that order, unfiltered; with r = 0 (c = 0) the
\* north (west) coordinate wraps to 2^w - 1, which no bounds check accepts.
C10_NeighboursWrap ==
    /\ fault # "overflow"
    /\ \A p \in Points(maze) :
        LET N == Neighbours_next(p, 0).point
            E == Neighbours_next(p, 1).point
            S == Neighbours_next(p, 2).point
            W == Neighbours_next(p, 3).point
        IN  /\ N = <<IF p[1] = 0 THEN Modulus - 1 ELSE p[1] - 1, p[2]>>
            /\ E = <<p[1], p[2] + 1>>
            /\ S = <<p[1] + 1, p[2]>>
            /\ W = <<p[1], IF p[2] = 0 THEN Modulus - 1 ELSE p[2] - 1>>
            /\ p[1] = 0 => (N[1] >= maze.n /\ ~is_valid(maze, N))
            /\ p[2] = 0 => (W[2] >= maze.m /\ ~is_valid(maze, W))

\* C11: for n >= 1 and m >= 1, no run of generate and no run of solve with an
\* in-bounds start indexes the maze or the cost field at a point with
\* row >= n or column >= m: the "index out of range" panic happens only when
\* solve is called with a start outside the grid.
C11_IndexInRange ==
    fault = "index" => (pc = "ready" /\ start \notin Points(maze))

\* C11 witness: solve ran from the bottom right corner of a generated maze
\* and returned, so both calls enumerated neighbours with row = n, column = m
\* and wrapped coordinates, and all of them were rejected before indexing
C11_Witness ==
    /\ generated
    /\ pc = "done"
    /\ fault = "none"
    /\ start = <<maze.n - 1, maze.m - 1>>
    /\ maze.n >= 2
    /\ result.some

----------------------------------------------------------------------------
\* The search of lines 153-161 with a break placed right after line 157-159:
\* the neighbour loop and the search end at the first neighbour that is an
\* exit (its cost is written and it is enqueued first, so that the restore
\* loop of lines 167-177 can start from it).  A pure function of the maze
\* and the start.

RECURSIVE ExpandBreakFrom(_, _, _, _)
ExpandBreakFrom(self, cur, k, acc) ==
    IF LoopEnded(acc, k) THEN acc
    ELSE LET nb == Neighbours_next(cur, k)
             next == nb.point
         IN  ExpandBreakFrom(self, cur, k + 1,
                IF nb.panic THEN [acc EXCEPT !.panic = TRUE]
                ELSE IF ~is_valid(self, next) THEN acc
                ELSE IF OutOfRange(self, next) THEN IndexPanic(acc)
                ELSE IF Skip(self, acc.costs, next) THEN acc
                ELSE [acc EXCEPT
                        !.exit = IF is_exit(self, next) THEN Some(next) ELSE @,
                        !.stop = is_exit(self, next),
                        !.costs = IndexMut(@, next, Index(acc.costs, cur) + 1),
                        !.queue = Append(@, next)])

\* lines 167-185 run to their end from `cur`: the path returned, a panic, or
\* "spin" when an iteration finds no neighbour to step to
RECURSIVE RestoreFrom(_, _, _, _, _)
RestoreFrom(self, cs, s, cur, p) ==
    IF cur = s THEN [tag |-> "returned", result |-> Some(Reverse(p))]
    ELSE LET sb == StepBack(self, cs, cur, p)
         IN  IF sb.panic THEN [tag |-> "panic", result |-> None]
             ELSE IF sb.current = cur THEN [tag |-> "spin", result |-> None]
             ELSE RestoreFrom(self, cs, s, sb.current, sb.path)

\* lines 153-165 with the immediate break, run to their end
RECURSIVE SearchBreak(_, _, _, _)
SearchBreak(self, s, cs, q) ==
    IF Len(q) = 0 THEN [tag |-> "returned", result |-> None]
    ELSE LET ex == ExpandBreakFrom(self, Head(q), 0,
                      [costs |-> cs, queue |-> Tail(q), exit |-> None,
                       panic |-> FALSE, oob |-> FALSE, stop |-> FALSE])
         IN  IF ex.panic THEN [tag |-> "panic", result |-> None]
             ELSE IF ex.exit.some
             THEN RestoreFrom(self, ex.costs, s, ex.exit.val, <<ex.exit.val>>)
             ELSE SearchBreak(self, s, ex.costs, ex.queue)

\* solve(s) with the immediate break, s in bounds
SolveBreak(self, s) ==
    IF Index(self, s) THEN [tag |-> "returned", result |-> None]
    ELSE SearchBreak(self, s, IndexMut(Matrix_new(self.n, self.m, 0), s, 1), <<s>>)

C14_DiscardedNeverPushedAgain == readded = {}

\* C14 amended: a discarded cell can be pushed onto the frontier again (when
\* another of its neighbours is carved), but it is never carved: it is a
\* wall for the rest of the run.
C14_DiscardedNeverCarved ==
    \A c \in discarded : c \in Points(maze) /\ Index(maze, c)

\* C14 witness: generate has returned after pushing a discarded cell again
C14_Witness ==
    /\ generated
    /\ pc = "ready"
    /\ readded # {}
    /\ \A c \in readded : Index(maze, c)

\* C15: at every step of generate's loop, every entry of the frontier is an
\* in-bounds cell that is still a wall and has at least one open in-bounds
\* neighbour; an open cell is never in the frontier, so no cell is removed
\* from it while open or carved a second time.
C15_FrontierOfWalls ==
    (pc \in {"generate", "carve"}) =>
        \A k \in 1 .. Len(cells) :
            /\ cells[k] \in Points(maze)
            /\ Index(maze, cells[k])
            /\ \E q \in OpenCells(maze) : Adjacent(cells[k], q)

\* C15 witness: the loop is running with a frontier that holds a cell twice
\* and at least 3 open cells
C15_Witness ==
    /\ pc = "carve"
    /\ fault = "none"
    /\ Cardinality(OpenCells(maze)) >= 3
    /\ \E j \in 1 .. Len(cells), k \in 1 .. Len(cells) : j # k /\ cells[j] = cells[k]

\* what is left of the search: the cells without a cost and the queued cells
SearchMeasure ==
    Cardinality({p \in Points(maze) : Index(costs, p) = 0}) + Len(queue)

\* C16: for every grid and every in-bounds start, solve terminates: no call
\* ends in a panic, every iteration of the search uses up a queued or an
\* unvisited cell, every iteration of the path-reconstruction loop steps to a
\* neighbour with a nonzero, strictly smaller cost until it reaches start,
\* and a returned path has at most n*m cells and visits no cell twice.
C16_SolveTerminates ==
    /\ [](pc \in {"search", "restore"} => fault = "none")
    /\ [][(pc = "search" /\ pc' = "search") => SearchMeasure' < SearchMeasure]_vars
    /\ [][(pc = "restore" /\ pc' = "restore") =>
            /\ Adjacent(current, current')
            /\ Index(costs, current') # 0
            /\ Index(costs, current') < Index(costs, current)]_vars
    /\ []((pc = "done" /\ result.some) =>
            /\ Len(result.val) <= maze.n * maze.m
            /\ \A j \in 1 .. Len(result.val), k \in 1 .. Len(result.val) :
                    j # k => result.val[j] # result.val[k])

\* The same without the first conjunct's panics: in a build without overflow
\* checks solve terminates as C16 says.
SolveTerminatesWhenWrapping ==
    /\ [](pc \in {"search", "restore"} /\ ~overflow_checks => fault = "none")
    /\ [][(pc = "search" /\ pc' = "search" /\ ~overflow_checks)
            => SearchMeasure' < SearchMeasure]_vars
    /\ [][(pc = "restore" /\ pc' = "restore" /\ ~overflow_checks) =>
            /\ Adjacent(current, current')
            /\ Index(costs, current') # 0
            /\ Index(costs, current') < Index(costs, current)]_vars
    /\ []((pc = "done" /\ result.some) =>
            /\ Len(result.val) <= maze.n * maze.m
            /\ \A j \in 1 .. Len(result.val), k \in 1 .. Len(result.val) :
                    j # k => result.val[j] # result.val[k])

\* number of steps of a shortest open-cell path from the cells of `layer`
\* (reached in `d` steps) to `target`; -1 when there is none
RECURSIVE Distance(_, _, _, _, _)
Distance(mz, seen, layer, target, d) ==
    IF target \in layer THEN d
    ELSE LET more == {q \in OpenCells(mz) \ seen : \E p \in layer : Adjacent(p, q)}
         IN  IF more = {} THEN 0 - 1
             ELSE Distance(mz, seen \cup more, more, target, d + 1)

\* C17: at every step of solve's search (and as long as the cost field
\* lives), costs[start] = 1, every wall cell and every cell not reached has
\* cost 0, every cell c with nonzero cost is open and costs[c] is the number
\* of steps of a shortest open-cell path from start to c, plus 1; a cost
\* once written is never changed.
C17_CostsAreDistances ==
    /\ [](pc \in {"search", "restore"} =>
            /\ Index(costs, start) = 1
            /\ \A c \in Points(maze) :
                /\ Index(maze, c) => Index(costs, c) = 0
                /\ c \notin Component(maze, start) => Index(costs, c) = 0
                /\ Index(costs, c) # 0 =>
                    /\ ~Index(maze, c)
                    /\ Index(costs, c) = Distance(maze, {start}, {start}, c, 0) + 1)
    /\ [][(pc \in {"search", "restore"} /\ pc' \in {"search", "restore", "done"}) =>
            \A c \in Points(maze) :
                Index(costs, c) # 0 => Index(costs', c) = Index(costs, c)]_vars

\* C17 witness: the search has written costs up to 4 and is still running
C17_Witness ==
    /\ pc = "search"
    /\ fault = "none"
    /\ Len(queue) > 0
    /\ ~exit.some
    /\ \E c \in Points(maze) : Index(costs, c) = 4

\* start is an open boundary cell from which no other open boundary cell is
\* reachable through open cells
OnlyExitIsStart ==
    /\ start \in OpenExits(maze)
    /\ Component(maze, start) \cap OpenExits(maze) = {start}

\* C18: solve never treats start as its own exit: every returned path has at
\* least 2 cells and ends on a boundary cell different from start, and when
\* start is an open boundary cell from which no other open boundary cell is
\* reachable through open cells, solve returns None.
C18_StartIsNotItsExit ==
    /\ (pc = "done" /\ result.some) =>
        /\ Len(result.val) >= 2
        /\ OnBoundary(maze, result.val[Len(result.val)])
        /\ result.val[Len(result.val)] # start
    /\ (SolvedFromOpen /\ OnlyExitIsStart) =>
        /\ pc = "done"
        /\ fault = "none"
        /\ ~result.some

\* The same in a build without overflow checks, where no neighbour
\* enumeration panics.
StartIsNotItsExitWhenWrapping ==
    /\ (pc = "done" /\ result.some) =>
        /\ Len(result.val) >= 2
        /\ OnBoundary(maze, result.val[Len(result.val)])
        /\ result.val[Len(result.val)] # start
    /\ (SolvedFromOpen /\ OnlyExitIsStart /\ ~overflow_checks) =>
        /\ pc = "done"
        /\ fault = "none"
        /\ ~result.some

====
